---- MODULE Spec2Model ----
(***************************************************************************)
(* State-machine model of src/app/index.tsx: the App root selector, the    *)
(* SplashScreen onboarding controller and the WebViewComponent browser     *)
(* pane, together with the AsyncStorage key 'hasVisited', the 3000 ms      *)
(* auto-advance timer and the fade sequences started by handleNextFAQ.     *)
(*                                                                         *)
(* Time is a logical clock in milliseconds that advances in steps of       *)
(* TickMs.  A timer or an animation never completes before its duration    *)
(* has elapsed; it may complete late.  Promise continuations, timer        *)
(* callbacks and animation callbacks are events of the single JS thread,   *)
(* so every handler is one atomic action.  A state update made by a        *)
(* handler is committed (re-render, unmount) within the same action.       *)
(***************************************************************************)
EXTENDS Integers, Sequences, FiniteSets, TLC

\* ---- bounds of the model ------------------------------------------------
MaxTime == 3600
TickMs == 300
MaxSessions == 2

\* ---- program constants --------------------------------------------------
AutoAdvanceDelay == 3000
FadeDuration == 300

\* src/app/index.tsx:20-34
FAQs ==
  << [question |-> "What is AliComms?"],
     [question |-> "Are your products genuine?"],
     [question |-> "Which payment methods do you accept?"] >>

Null == "null"
NoTimer == -1
NoTime == -1

\* inputs of the WebView error events
Descriptions == {"net::ERR_CONNECTION_REFUSED", "net::ERR_TIMED_OUT"}
StatusCodes == {404, 500}
ErrorNames == {"timeout"}

\* no onError / onHttpError event has been delivered yet
NoEvent == [kind |-> "none", arg |-> ""]

VARIABLES
  session,       \* number of the running app process (storage survives it)
  now,           \* ms since the process started
  storage,       \* AsyncStorage value of key 'hasVisited' (Null = absent)
  appMounted,    \* the App screen is mounted
  showSplash,    \* App: useState(true)
  isFirstTime,   \* SplashScreen: useState<boolean | null>(null)
  currentFAQ,    \* SplashScreen: useState(0)
  handlerId,     \* SplashScreen: which handleNextFAQ (and fadeAnim) is bound
  pc,            \* position of the async function checkFirstTime
  hasVisited,    \* checkFirstTime: const hasVisited (Null before the read)
  timer,         \* due time of setTimeout(onDone, 3000), or NoTimer
  anims,         \* fade sequences in flight, oldest first
  errorMessage,  \* WebViewComponent: useState<string | null>(null)
  renderErrorName, \* WebView: errorName its renderError view shows, or Null
  lastErrorEvent,  \* history: the last onError / onHttpError event delivered
  doneCount,     \* history: number of onDone() invocations in this session
  doneAt,        \* history: time of the last onDone() invocation
  setItemCalls,  \* history: number of AsyncStorage.setItem calls
  lateWrites,    \* history: state setters called on the unmounted SplashScreen
  orphanTimer    \* history: SplashScreen was torn down before its timer was due

vars == << session, now, storage, appMounted, showSplash, isFirstTime,
           currentFAQ, handlerId, pc, hasVisited, timer, anims, errorMessage,
           renderErrorName, lastErrorEvent, doneCount, doneAt, setItemCalls,
           lateWrites, orphanTimer >>

\* ---- rendering (pure functions of the state) ----------------------------

\* JavaScript truthiness of the value getItem resolved with (string | null)
Truthy(v) == v # Null /\ v # ""

\* the three return branches of SplashScreen
SplashView ==
  IF isFirstTime = Null THEN "loading"
  ELSE IF isFirstTime # "true" THEN "welcomeBack"
  ELSE "carousel"

\* App with the branches of its ternary exchanged
AppViewInverted ==
  IF ~appMounted THEN "none"
  ELSE IF showSplash THEN "WebViewComponent"
  ELSE "SplashScreen"

\* what App renders
AppView ==
  IF ~appMounted THEN "none"
  ELSE IF showSplash THEN "SplashScreen"
  ELSE "WebViewComponent"

\* the component App has mounted
SplashMounted == AppView = "SplashScreen"

WebViewMounted == AppView = "WebViewComponent"

\* onPress={currentFAQ < FAQs.length - 1 ? handleNextFAQ : onDone}
OnPressHandler(k) ==
  IF k < Len(FAQs) - 1 THEN "handleNextFAQ" ELSE "onDone"

\* a functional update: setCurrentFAQ(c => (c + 1) % FAQs.length)
CompletionWriteFromState(captured, current) == (current + 1) % Len(FAQs)

\* a functional update without the modulo: setCurrentFAQ(c => c + 1)
CompletionWriteFunctional(captured, current) == current + 1

\* the index a completion callback writes: it was created with `captured`
\* in its closure; `current` is the state at the time the callback runs
CompletionWrite(captured, current) == (captured + 1) % Len(FAQs)

\* ---- state setters ------------------------------------------------------

\* onDone = () => setShowSplash(true)
OnDoneNoFlip ==
  /\ doneCount' = doneCount + 1
  /\ doneAt' = now
  /\ UNCHANGED << showSplash, errorMessage, renderErrorName, lastErrorEvent >>

\* onDone = () => setShowSplash(false); a setter of an unmounted component
\* changes nothing.  Flipping showSplash unmounts SplashScreen and mounts
\* WebViewComponent with errorMessage = null.
OnDone ==
  /\ doneCount' = doneCount + 1
  /\ doneAt' = now
  /\ showSplash' = (IF appMounted THEN FALSE ELSE showSplash)
  /\ errorMessage' = (IF appMounted /\ showSplash THEN Null ELSE errorMessage)
  /\ renderErrorName' =
       (IF appMounted /\ showSplash THEN Null ELSE renderErrorName)
  /\ lastErrorEvent' =
       (IF appMounted /\ showSplash THEN NoEvent ELSE lastErrorEvent)

NotDone ==
  UNCHANGED << doneCount, doneAt, showSplash, errorMessage, renderErrorName,
               lastErrorEvent >>

\* ---- initial state ------------------------------------------------------

Init ==
  /\ session = 1
  /\ now = 0
  /\ storage = Null
  /\ appMounted = TRUE
  /\ showSplash = TRUE
  /\ isFirstTime = Null
  /\ currentFAQ = 0
  /\ handlerId = 0
  /\ pc = "start"
  /\ hasVisited = Null
  /\ timer = NoTimer
  /\ anims = << >>
  /\ errorMessage = Null
  /\ renderErrorName = Null
  /\ lastErrorEvent = NoEvent
  /\ doneCount = 0
  /\ doneAt = NoTime
  /\ setItemCalls = 0
  /\ lateWrites = 0
  /\ orphanTimer = FALSE

\* ---- SplashScreen: useEffect / checkFirstTime ---------------------------

\* setIsFirstTime(true) before the read is awaited
CheckFirstTimeOptimistic ==
  /\ SplashMounted
  /\ pc = "start"
  /\ pc' = "awaitGet"
  /\ isFirstTime' = "true"
  /\ UNCHANGED << session, now, storage, appMounted, showSplash, currentFAQ,
                  handlerId, hasVisited, timer, anims, errorMessage,
                  renderErrorName, lastErrorEvent, doneCount, doneAt,
                  setItemCalls, lateWrites, orphanTimer >>

\* the effect runs after the first commit and calls checkFirstTime(), which
\* issues AsyncStorage.getItem('hasVisited') and suspends.  Its dependency
\* onDone is recreated only when App renders again; App has no state but
\* showSplash, so the effect runs once per mount.
CheckFirstTime ==
  /\ SplashMounted
  /\ pc = "start"
  /\ pc' = "awaitGet"
  /\ UNCHANGED << session, now, storage, appMounted, showSplash, isFirstTime,
                  currentFAQ, handlerId, hasVisited, timer, anims,
                  errorMessage, renderErrorName, lastErrorEvent, doneCount,
                  doneAt, setItemCalls, lateWrites, orphanTimer >>

\* setTimeout(onDone(), 3000): onDone is called while the timer is set up
GetItemResolveEager ==
  /\ pc = "awaitGet"
  /\ hasVisited' = storage
  /\ IF Truthy(storage)
       THEN /\ timer' = NoTimer
            /\ pc' = "scheduled"
            /\ OnDone
            /\ UNCHANGED setItemCalls
       ELSE /\ setItemCalls' = setItemCalls + 1
            /\ pc' = "awaitSet"
            /\ NotDone
            /\ UNCHANGED timer
  /\ UNCHANGED << session, now, storage, appMounted, isFirstTime, currentFAQ,
                  handlerId, anims, lateWrites, orphanTimer >>

\* the flag is written without looking at the value read
GetItemResolveAlwaysWrite ==
  /\ pc = "awaitGet"
  /\ hasVisited' = storage
  /\ setItemCalls' = setItemCalls + 1
  /\ pc' = "awaitSet"
  /\ UNCHANGED << session, now, storage, appMounted, showSplash, isFirstTime,
                  currentFAQ, handlerId, timer, anims, errorMessage,
                  renderErrorName, lastErrorEvent, doneCount, doneAt,
                  lateWrites, orphanTimer >>

\* getItem resolves; the continuation runs whether or not the component is
\* still mounted.  The function returned on line 97 is the resolution value
\* of the promise checkFirstTime() returns, which the effect drops.
\* (The first guard keeps the due time of the timer inside the modelled
\* time window.)
GetItemResolve ==
  /\ pc = "awaitGet"
  /\ Truthy(storage) => now + AutoAdvanceDelay + TickMs <= MaxTime
  /\ hasVisited' = storage
  /\ IF Truthy(storage)
       THEN /\ timer' = now + AutoAdvanceDelay
            /\ pc' = "scheduled"
            /\ UNCHANGED setItemCalls
       ELSE /\ setItemCalls' = setItemCalls + 1
            /\ pc' = "awaitSet"
            /\ UNCHANGED timer
  /\ UNCHANGED << session, now, storage, appMounted, showSplash, isFirstTime,
                  currentFAQ, handlerId, anims, errorMessage, renderErrorName,
                  lastErrorEvent, doneCount, doneAt, lateWrites,
                  orphanTimer >>

\* getItem rejects: catch block, onDone()
GetItemReject ==
  /\ pc = "awaitGet"
  /\ pc' = "caught"
  /\ OnDone
  /\ UNCHANGED << session, now, storage, appMounted, isFirstTime, currentFAQ,
                  handlerId, hasVisited, timer, anims, setItemCalls,
                  lateWrites, orphanTimer >>

\* setIsFirstTime(false) after the write
SetItemResolveFalse ==
  /\ pc = "awaitSet"
  /\ storage' = "true"
  /\ pc' = "interactive"
  /\ IF SplashMounted
       THEN isFirstTime' = "false" /\ UNCHANGED lateWrites
       ELSE lateWrites' = lateWrites + 1 /\ UNCHANGED isFirstTime
  /\ UNCHANGED << session, now, appMounted, showSplash, currentFAQ, handlerId,
                  hasVisited, timer, anims, errorMessage, renderErrorName,
                  lastErrorEvent, doneCount, doneAt, setItemCalls,
                  orphanTimer >>

\* setItem resolves: the value is stored, then setIsFirstTime(true)
SetItemResolve ==
  /\ pc = "awaitSet"
  /\ storage' = "true"
  /\ pc' = "interactive"
  /\ IF SplashMounted
       THEN isFirstTime' = "true" /\ UNCHANGED lateWrites
       ELSE lateWrites' = lateWrites + 1 /\ UNCHANGED isFirstTime
  /\ UNCHANGED << session, now, appMounted, showSplash, currentFAQ, handlerId,
                  hasVisited, timer, anims, errorMessage, renderErrorName,
                  lastErrorEvent, doneCount, doneAt, setItemCalls,
                  orphanTimer >>

\* a catch block that logs and does not call onDone()
SetItemRejectLogOnly ==
  /\ pc = "awaitSet"
  /\ pc' = "caught"
  /\ NotDone
  /\ UNCHANGED << session, now, storage, appMounted, isFirstTime, currentFAQ,
                  handlerId, hasVisited, timer, anims, setItemCalls,
                  lateWrites, orphanTimer >>

\* a rejected write is issued again
SetItemRejectRetry ==
  /\ pc = "awaitSet"
  /\ pc' = "awaitSet"
  /\ setItemCalls' = setItemCalls + 1
  /\ NotDone
  /\ UNCHANGED << session, now, storage, appMounted, isFirstTime, currentFAQ,
                  handlerId, hasVisited, timer, anims, lateWrites,
                  orphanTimer >>

\* setItem rejects: nothing is stored; catch block, onDone()
SetItemReject ==
  /\ pc = "awaitSet"
  /\ pc' = "caught"
  /\ OnDone
  /\ UNCHANGED << session, now, storage, appMounted, isFirstTime, currentFAQ,
                  handlerId, hasVisited, timer, anims, setItemCalls,
                  lateWrites, orphanTimer >>

\* the 3000 ms timer elapses and calls onDone; nothing clears it on unmount
TimerFire ==
  /\ timer # NoTimer
  /\ now >= timer
  /\ timer' = NoTimer
  /\ OnDone
  /\ UNCHANGED << session, now, storage, appMounted, isFirstTime, currentFAQ,
                  handlerId, pc, hasVisited, anims, setItemCalls, lateWrites,
                  orphanTimer >>

\* ---- SplashScreen: action control and fade sequences --------------------

\* setCurrentFAQ(v).  fadeAnim is `new Animated.Value(0)` in every render
\* and handleNextFAQ is memoised on [currentFAQ]: a render with a changed
\* currentFAQ binds a new handler, which closes over that render's fadeAnim.
SetCurrentFAQ(v) ==
  /\ currentFAQ' = v
  /\ handlerId' = (IF v # currentFAQ THEN handlerId + 1 ELSE handlerId)

\* Animated.sequence([...]).start(cb) on the fadeAnim of the bound handler.
\* Starting a timing animation on a value that is still animating stops
\* the running one, and a stopped sequence calls its completion callback at
\* once (the callback does not look at `finished`).
Interrupted == \E i \in 1..Len(anims) : anims[i].handler = handlerId

StartSequence ==
  Append(SelectSeq(anims, LAMBDA a : a.handler # handlerId),
         [captured |-> currentFAQ, handler |-> handlerId, started |-> now])

\* the phase of the sequence started last: timing to 0, then timing to 1
TransitionPhase ==
  IF anims = << >> THEN "idle"
  ELSE IF now < anims[Len(anims)].started + FadeDuration THEN "fadingOut"
  ELSE "fadingIn"

\* const handleNextFAQ = useCallback(..., [currentFAQ]), invoked by a press
HandleNextFAQ ==
  /\ anims' = StartSequence
  /\ IF Interrupted
       THEN SetCurrentFAQ(CompletionWrite(currentFAQ, currentFAQ))
       ELSE UNCHANGED << currentFAQ, handlerId >>
  /\ NotDone

\* a press of the TouchableOpacity, which exists only in the carousel view
Press ==
  /\ SplashMounted
  /\ SplashView = "carousel"
  /\ IF OnPressHandler(currentFAQ) = "handleNextFAQ"
       THEN HandleNextFAQ
       ELSE OnDone /\ UNCHANGED << anims, currentFAQ, handlerId >>
  /\ UNCHANGED << session, now, storage, appMounted, isFirstTime, pc,
                  hasVisited, timer, setItemCalls, lateWrites, orphanTimer >>

\* the oldest sequence finishes (fade-out then fade-in, 300 ms each) and
\* its callback writes setCurrentFAQ((currentFAQ + 1) % FAQs.length) with
\* the currentFAQ of its closure
AnimComplete ==
  /\ anims # << >>
  /\ now >= Head(anims).started + 2 * FadeDuration
  /\ anims' = Tail(anims)
  /\ IF SplashMounted
       THEN /\ SetCurrentFAQ(CompletionWrite(Head(anims).captured, currentFAQ))
            /\ UNCHANGED lateWrites
       ELSE /\ lateWrites' = lateWrites + 1
            /\ UNCHANGED << currentFAQ, handlerId >>
  /\ UNCHANGED << session, now, storage, appMounted, showSplash, isFirstTime,
                  pc, hasVisited, timer, errorMessage, renderErrorName,
                  lastErrorEvent, doneCount, doneAt, setItemCalls,
                  orphanTimer >>

\* ---- WebViewComponent ---------------------------------------------------

\* the message is set only while none is shown
HandleLoadErrorFirstWins ==
  /\ WebViewMounted
  /\ \E d \in Descriptions :
       /\ errorMessage' = (IF errorMessage = Null THEN "Load Error: " \o d
                                                  ELSE errorMessage)
       /\ lastErrorEvent' = [kind |-> "load", arg |-> d]
  /\ UNCHANGED << session, now, storage, appMounted, showSplash, isFirstTime,
                  currentFAQ, handlerId, pc, hasVisited, timer, anims,
                  renderErrorName, doneCount, doneAt, setItemCalls, lateWrites,
                  orphanTimer >>

\* the handler also sends the root back to the splash screen
HandleLoadErrorLeavesPane ==
  /\ WebViewMounted
  /\ \E d \in Descriptions :
       /\ errorMessage' = "Load Error: " \o d
       /\ lastErrorEvent' = [kind |-> "load", arg |-> d]
  /\ showSplash' = TRUE
  /\ UNCHANGED << session, now, storage, appMounted, isFirstTime, currentFAQ,
                  handlerId, pc, hasVisited, timer, anims, renderErrorName,
                  doneCount, doneAt, setItemCalls, lateWrites, orphanTimer >>

\* onError={handleLoadError}: setErrorMessage(`Load Error: ${description}`)
HandleLoadError ==
  /\ WebViewMounted
  /\ \E d \in Descriptions :
       /\ errorMessage' = "Load Error: " \o d
       /\ lastErrorEvent' = [kind |-> "load", arg |-> d]
  /\ UNCHANGED << session, now, storage, appMounted, showSplash, isFirstTime,
                  currentFAQ, handlerId, pc, hasVisited, timer, anims,
                  renderErrorName, doneCount, doneAt, setItemCalls, lateWrites,
                  orphanTimer >>

\* onHttpError={...}: setErrorMessage(`HTTP Error: ${statusCode}`)
OnHttpError ==
  /\ WebViewMounted
  /\ \E c \in StatusCodes :
       /\ errorMessage' = "HTTP Error: " \o ToString(c)
       /\ lastErrorEvent' = [kind |-> "http", arg |-> ToString(c)]
  /\ UNCHANGED << session, now, storage, appMounted, showSplash, isFirstTime,
                  currentFAQ, handlerId, pc, hasVisited, timer, anims,
                  renderErrorName, doneCount, doneAt, setItemCalls, lateWrites,
                  orphanTimer >>

\* the WebView cannot render and calls the renderError prop with errorName;
\* the view it returns is drawn inside <WebView>.  When the WebView does so
\* is its own decision; no state of WebViewComponent is touched.
RenderError ==
  /\ WebViewMounted
  /\ \E n \in ErrorNames : renderErrorName' = n
  /\ UNCHANGED << session, now, storage, appMounted, showSplash, isFirstTime,
                  currentFAQ, handlerId, pc, hasVisited, timer, anims,
                  errorMessage, lastErrorEvent, doneCount, doneAt,
                  setItemCalls, lateWrites, orphanTimer >>

\* children of styles.webviewContainer that are on screen: the text of the
\* renderError view inside <WebView> and the text of the error banner
PaneErrorView ==
  IF renderErrorName # Null THEN "WebView Error: " \o renderErrorName ELSE Null

PaneBanner == errorMessage

\* ---- environment --------------------------------------------------------

\* time passes
Tick ==
  /\ now + TickMs <= MaxTime
  /\ now' = now + TickMs
  /\ UNCHANGED << session, storage, appMounted, showSplash, isFirstTime,
                  currentFAQ, handlerId, pc, hasVisited, timer, anims,
                  errorMessage, renderErrorName, lastErrorEvent, doneCount,
                  doneAt, setItemCalls, lateWrites, orphanTimer >>

\* the host (router) unmounts the App screen, and SplashScreen with it;
\* SplashScreen's effects return no cleanup, so nothing is cancelled
Teardown ==
  /\ appMounted
  /\ appMounted' = FALSE
  /\ orphanTimer' = (showSplash /\ timer # NoTimer /\ now < timer)
  /\ UNCHANGED << session, now, storage, showSplash, isFirstTime, currentFAQ,
                  handlerId, pc, hasVisited, timer, anims, errorMessage,
                  renderErrorName, lastErrorEvent, doneCount, doneAt,
                  setItemCalls, lateWrites >>

\* the process ends and the app is started again: only storage survives.
\* A setItem that was in flight may or may not have reached the store.
Relaunch ==
  /\ session < MaxSessions
  /\ session' = session + 1
  /\ storage' \in (IF pc = "awaitSet" THEN {storage, "true"} ELSE {storage})
  /\ now' = 0
  /\ appMounted' = TRUE
  /\ showSplash' = TRUE
  /\ isFirstTime' = Null
  /\ currentFAQ' = 0
  /\ handlerId' = 0
  /\ pc' = "start"
  /\ hasVisited' = Null
  /\ timer' = NoTimer
  /\ anims' = << >>
  /\ errorMessage' = Null
  /\ renderErrorName' = Null
  /\ lastErrorEvent' = NoEvent
  /\ doneCount' = 0
  /\ doneAt' = NoTime
  /\ setItemCalls' = 0
  /\ lateWrites' = 0
  /\ orphanTimer' = FALSE

Next ==
  \/ CheckFirstTime
  \/ GetItemResolve
  \/ GetItemReject
  \/ SetItemResolve
  \/ SetItemReject
  \/ TimerFire
  \/ Press
  \/ AnimComplete
  \/ HandleLoadError
  \/ OnHttpError
  \/ RenderError
  \/ Tick
  \/ Teardown
  \/ Relaunch

Spec == Init /\ [][Next]_vars

\* time passes and the event loop runs the callback of a timer that is due
FairSpec == Spec /\ WF_vars(Tick) /\ WF_vars(TimerFire)

TypeOK ==
  /\ session \in 1..MaxSessions
  /\ now \in 0..MaxTime
  /\ storage \in {Null, "true"}
  /\ appMounted \in BOOLEAN
  /\ showSplash \in BOOLEAN
  /\ isFirstTime \in {Null, "true", "false"}
  /\ currentFAQ \in Int
  /\ handlerId \in Nat
  /\ pc \in {"start", "awaitGet", "awaitSet", "scheduled", "interactive",
             "caught"}
  /\ hasVisited \in {Null, "true"}
  /\ timer \in {NoTimer} \cup 0..(MaxTime + AutoAdvanceDelay)
  /\ Len(anims) <= Len(FAQs)
  /\ doneCount \in Nat
  /\ setItemCalls \in Nat
  /\ lateWrites \in Nat

\* ---- properties ---------------------------------------------------------

SameSession == session' = session

\* C1: in one session onDone() is never invoked twice, and on every path
\* that has completed (the root left onboarding, the auto-advance timer
\* fired, or the catch block ran) it has been invoked exactly once.
C1_OnDoneExactlyOnce ==
  /\ doneCount <= 1
  /\ ~showSplash => doneCount = 1
  /\ (pc = "scheduled" /\ timer = NoTimer) => doneCount = 1
  /\ pc = "caught" => doneCount = 1

\* the interactive path was walked to the end: Get Started pressed at the
\* last entry
C1_Witness ==
  /\ pc = "interactive"
  /\ isFirstTime = "true"
  /\ currentFAQ = Len(FAQs) - 1
  /\ ~showSplash
  /\ doneCount = 1

\* C2 (as claimed): once SplashScreen is unmounted with the auto-advance
\* timer still pending, onDone() is not invoked any more.
C2_NoLateTimerCallback ==
  [][(SameSession /\ orphanTimer) => doneCount' = doneCount]_vars

\* C3 (as claimed): in a session that started with hasVisited = "true" in
\* storage, onDone() is not invoked before 3000 ms and the carousel is not
\* rendered.  (storage = "true" outside the first-run branch means that it
\* was "true" when the session started.)
C3_Original ==
  (storage = "true" /\ pc \notin {"awaitSet", "interactive"})
    => /\ SplashView # "carousel"
       /\ doneCount > 0 => doneAt >= AutoAdvanceDelay

C3_ReturningUserSafe ==
  (storage = "true" /\ pc \in {"start", "awaitGet", "scheduled"})
    => /\ SplashView # "carousel"
       /\ doneCount > 0 => (doneAt >= AutoAdvanceDelay /\ timer = NoTimer)
       /\ (doneCount = 0 /\ pc = "scheduled") => timer # NoTimer

\* C3 (amended): in a session whose read resolved with hasVisited = "true"
\* (and before the read has settled), onDone() is invoked only by the timer,
\* not before 3000 ms, and the carousel is not rendered; once the timer is
\* scheduled, onDone() is invoked unless the process ends first.
C3_ReturningUser ==
  /\ []C3_ReturningUserSafe
  /\ (pc = "scheduled") ~> (doneCount = 1 \/ pc # "scheduled")

\* the timer of a returning user has fired and the root shows the browser
C3_Witness ==
  /\ hasVisited = "true"
  /\ pc = "scheduled"
  /\ doneCount = 1
  /\ doneAt >= AutoAdvanceDelay
  /\ AppView = "WebViewComponent"

\* C4: when the read found no flag and the write resolves on the mounted
\* controller, storage holds "true" and the carousel is shown at index 0.
C4_FirstRunActivation ==
  [][(SplashMounted /\ pc = "awaitSet" /\ pc' = "interactive")
       => /\ hasVisited = Null
          /\ storage' = "true"
          /\ AppView' = "SplashScreen"
          /\ SplashView' = "carousel"
          /\ currentFAQ' = 0]_vars

C4_Witness ==
  /\ pc = "interactive"
  /\ SplashMounted
  /\ SplashView = "carousel"
  /\ storage = "true"
  /\ currentFAQ = 0
  /\ anims = << >>

\* C5: when getItem or setItem rejects, onDone() is invoked in the same
\* step, the carousel has not been and is not shown, and a mounted root
\* shows the browser pane.
C5_FailOpen ==
  [][(pc # "caught" /\ pc' = "caught")
       => /\ pc \in {"awaitGet", "awaitSet"}
          /\ doneCount' = doneCount + 1
          /\ doneAt' = now
          /\ isFirstTime = Null /\ isFirstTime' = Null
          /\ appMounted => AppView' = "WebViewComponent"]_vars

\* the write rejected and the root went on to the browser pane
C5_Witness ==
  /\ pc = "caught"
  /\ setItemCalls = 1
  /\ isFirstTime = Null
  /\ AppView = "WebViewComponent"
  /\ doneCount = 1

\* C6 (as claimed): once the write issued after an empty read has settled,
\* whatever its outcome, the mounted controller is in interactive mode.
C6_Original ==
  (appMounted /\ setItemCalls >= 1 /\ pc # "awaitSet") => isFirstTime = "true"

\* C6 (amended): after an empty read the write is issued exactly once;
\* interactive mode is entered when the write resolves; when it rejects,
\* isFirstTime stays null and onDone() has been invoked.
C6_WriteOnce ==
  /\ setItemCalls <= 1
  /\ pc \in {"awaitSet", "interactive"} => setItemCalls = 1
  /\ setItemCalls = 1 => hasVisited = Null
  /\ (appMounted /\ pc = "interactive") => isFirstTime = "true"
  /\ pc = "caught" => (isFirstTime = Null /\ doneCount = 1)

C6_Witness ==
  /\ pc = "interactive"
  /\ setItemCalls = 1
  /\ isFirstTime = "true"
  /\ storage = "true"
  /\ SplashMounted

\* C7: showSplash is true until onDone() has been invoked; a mounted App has
\* SplashScreen mounted exactly while showSplash is true and WebViewComponent
\* exactly while it is false; within a session showSplash changes only in a
\* step that invokes onDone() and never goes back to true.
C7_RootSelector ==
  [][/\ doneCount = 0 => showSplash
     /\ appMounted => /\ showSplash <=> SplashMounted
                      /\ ~showSplash <=> WebViewMounted
     /\ SameSession =>
          /\ showSplash' # showSplash => doneCount' = doneCount + 1
          /\ ~showSplash => ~showSplash']_vars

\* the browser pane is up and has handled an error event
C7_Witness ==
  /\ ~showSplash
  /\ AppView = "WebViewComponent"
  /\ errorMessage # Null
  /\ doneCount = 1

\* C8: currentFAQ is always an index of FAQs, which has three entries.
C8_IndexInRange ==
  /\ Len(FAQs) = 3
  /\ currentFAQ \in 0..(Len(FAQs) - 1)

\* the last entry is shown while a callback of an earlier press is pending
C8_Witness ==
  /\ SplashMounted
  /\ currentFAQ = Len(FAQs) - 1
  /\ anims # << >>

StartsSequence ==
  /\ anims' # << >>
  /\ anims'[Len(anims')] \notin {anims[i] : i \in 1..Len(anims)}

CompletesSequence == anims # << >> /\ anims' = Tail(anims)

\* C9 (as claimed): a sequence is started only by a press at an index that
\* is not the last, without onDone(); every completion on the mounted
\* controller advances currentFAQ by exactly one without onDone(); onDone()
\* from the carousel happens at the last index, with no sequence started
\* and no index change.
C9_Original ==
  [][SameSession =>
       /\ StartsSequence =>
            (currentFAQ < Len(FAQs) - 1 /\ doneCount' = doneCount)
       /\ (CompletesSequence /\ SplashMounted) =>
            (currentFAQ' = currentFAQ + 1 /\ doneCount' = doneCount)
       /\ (SplashMounted /\ pc = "interactive" /\ doneCount' # doneCount) =>
            /\ currentFAQ = Len(FAQs) - 1
            /\ currentFAQ' = currentFAQ
            /\ anims' = anims]_vars

\* C10: the stored flag never leaves "true"; it changes only from absent to
\* "true"; setItem is called only after a read that found it absent.
C10_VisitRecordSetOnce ==
  [][/\ storage = "true" => storage' = "true"
     /\ storage' # storage => (storage = Null /\ storage' = "true")
     /\ setItemCalls' > setItemCalls =>
          (storage = Null /\ hasVisited' = Null /\ pc = "awaitGet")]_vars

\* a second session found the flag and did not write
C10_Witness ==
  /\ session = 2
  /\ storage = "true"
  /\ hasVisited = "true"
  /\ pc = "scheduled"
  /\ setItemCalls = 0

\* C11 (as claimed): the renderError view and the error banner are never on
\* screen together.
C11_ErrorViewWithoutBanner ==
  WebViewMounted => ~(PaneErrorView # Null /\ PaneBanner # Null)

\* the text an error event is to be shown as
ErrorText(e) ==
  IF e.kind = "load" THEN "Load Error: " \o e.arg ELSE "HTTP Error: " \o e.arg

\* C12: once an onError / onHttpError event has been delivered, the one
\* banner shows the message of the last event delivered, and within the
\* session errorMessage does not go back to null.
C12_LastErrorWins ==
  [][/\ lastErrorEvent = NoEvent => PaneBanner = Null
     /\ lastErrorEvent # NoEvent =>
          (PaneBanner # Null /\ PaneBanner = ErrorText(lastErrorEvent))
     /\ (SameSession /\ errorMessage # Null) => errorMessage' # Null]_vars

\* an HTTP error is on the banner of the mounted pane
C12_Witness ==
  /\ WebViewMounted
  /\ lastErrorEvent = [kind |-> "http", arg |-> "500"]
  /\ PaneBanner = "HTTP Error: 500"

\* C13: a step that delivers a load or HTTP error changes errorMessage (and
\* the record of the event) and nothing else: WebViewComponent stays
\* mounted, the WebView keeps its own state, showSplash is unchanged.
C13_ErrorFrame ==
  [][(SameSession /\ lastErrorEvent' # lastErrorEvent)
       => /\ WebViewMounted /\ WebViewMounted'
          /\ errorMessage' = ErrorText(lastErrorEvent')
          /\ UNCHANGED << now, storage, appMounted, showSplash, isFirstTime,
                          currentFAQ, handlerId, pc, hasVisited, timer, anims,
                          renderErrorName, doneCount, doneAt, setItemCalls,
                          lateWrites, orphanTimer >>]_vars

\* the banner of the spec's example, with the browser view mounted and no
\* renderError view
C13_Witness ==
  /\ WebViewMounted
  /\ PaneBanner = "Load Error: net::ERR_CONNECTION_REFUSED"
  /\ PaneErrorView = Null
  /\ ~showSplash

\* C14: until getItem has settled the loading indicator is rendered, no
\* timer is scheduled, isFirstTime is null, no write was issued and onDone()
\* was not invoked.
C14_NothingBeforeRead ==
  pc \in {"start", "awaitGet"}
    => /\ SplashView = "loading"
       /\ isFirstTime = Null
       /\ timer = NoTimer
       /\ setItemCalls = 0
       /\ anims = << >>
       /\ doneCount = 0
       /\ appMounted => SplashMounted

\* the read has been pending for some time
C14_Witness ==
  /\ pc = "awaitGet"
  /\ now >= 2 * TickMs
  /\ SplashMounted
  /\ SplashView = "loading"

\* C15 (as claimed): while the auto-advance timer is pending the mounted
\* controller has isFirstTime = false and renders the returning-user view.
C15_ReturningUserView ==
  (SplashMounted /\ pc = "scheduled" /\ timer # NoTimer)
    => (isFirstTime = "false" /\ SplashView = "welcomeBack")

\* C16 (as claimed): a sequence is started only when none is in flight, and
\* while one is in flight nothing but its completion changes the sequences
\* or the index; the phase never goes from fadingIn back to fadingOut.
C16_NonReentrant ==
  [][SameSession =>
       /\ StartsSequence => TransitionPhase = "idle"
       /\ (TransitionPhase # "idle" /\ ~CompletesSequence) =>
            UNCHANGED << anims, currentFAQ >>
       /\ TransitionPhase = "fadingIn" => TransitionPhase' # "fadingOut"]_vars

\* C17 (as claimed): no state setter of SplashScreen is called after it was
\* unmounted.
C17_NoLateSetter == lateWrites = 0

\* C18 (as claimed): within a session currentFAQ never decreases.
C18_Monotonic == [][SameSession => currentFAQ' >= currentFAQ]_vars

\* C19: every sequence started at index k writes k + 1: the handler bound at
\* index k captured k, every change of the index is the write of a sequence
\* in flight to its captured index plus one, and so presses repeated at k
\* leave the index at k + 1.
C19_IdempotentWrites ==
  [][/\ \A i \in 1..Len(anims) :
          /\ anims[i].captured \in 0..(Len(FAQs) - 2)
          /\ anims[i].handler = handlerId => anims[i].captured = currentFAQ
     /\ SameSession =>
          /\ StartsSequence => anims'[Len(anims')].captured = currentFAQ
          /\ (CompletesSequence /\ SplashMounted) =>
               currentFAQ' = Head(anims).captured + 1
          /\ currentFAQ' # currentFAQ =>
               \E i \in 1..Len(anims) :
                  currentFAQ' = anims[i].captured + 1]_vars

\* index 0 was pressed twice: the index is 1 and the sequence of the second
\* press is still in flight
C19_Witness ==
  /\ SplashMounted
  /\ currentFAQ = 1
  /\ \E i \in 1..Len(anims) : anims[i].captured = 0
  /\ now >= TickMs

====
